---- MODULE Spec2Model ----
(***************************************************************************)
(* Model of consumers/consumer_pinkston.py: main() and its startup steps,  *)
(* the tailing loop of consume_messages_from_file(), process_message(),    *)
(* the two inserts, and the producer that appends to the live data file.   *)
(*                                                                         *)
(* Numbers: a sentiment is kept in hundredths (0.6 is 60, 0.4 is 40).      *)
(* Python exceptions are named by their class; exit codes are strings.     *)
(***************************************************************************)
EXTENDS Integers, Sequences, FiniteSets, TLC

\* ---------------------------------------------------------------- bounds
MaxLines == 3
MaxCycles == 2
MaxText == 2
SentBelow == 10
MaxSent == 110

\* ------------------------------------------------------------ JSON values
Missing == [t |-> "missing"]
Null == [t |-> "null"]
Num(n) == [t |-> "num", v |-> n]
NumStr(n) == [t |-> "numstr", v |-> n]
Str(s) == [t |-> "str", s |-> s]

Chars == {"a", " "}
Texts == UNION {[1..n -> Chars] : n \in 0..MaxText}

NoneVal == [t |-> "None"]
Scalar == [t |-> "scalar"]
Obj(m, s, l) == [t |-> "obj", message |-> m, sentiment |-> s, message_length |-> l]

\* ------------------------------------------------------------- file lines
Blank == [t |-> "blank"]
Bad == [t |-> "bad"]
Json(doc) == [t |-> "json", doc |-> doc]

\* Bytes of a line's content, without its terminator.
ByteLen(body) == CASE body.t = "blank" -> 1
                   [] body.t = "bad" -> 2
                   [] OTHER -> 3

LineBytes(l) == ByteLen(l.body) + (IF l.nl THEN 1 ELSE 0)

\* line.strip() is empty
IsBlank(body) == body.t = "blank"

RECURSIVE Offset(_, _)
\* Byte offset just after the first i lines of f.
Offset(f, i) == IF i = 0 THEN 0 ELSE Offset(f, i - 1) + LineBytes(f[i])

\* Number of lines that end at or before byte offset p: where seek(p) lands.
IndexAt(f, p) == CHOOSE i \in 0..Len(f) :
                    /\ Offset(f, i) <= p
                    /\ \A j \in 0..Len(f) : Offset(f, j) <= p => j <= i

\* json.loads(line.strip())
JsonLoads(body) == IF body.t = "json" THEN [ok |-> TRUE, doc |-> body.doc]
                   ELSE [ok |-> FALSE, doc |-> NoneVal]

\* --------------------------------------------------------- process_message
\* float(x)
FloatOf(x) == IF x.t \in {"num", "numstr"} THEN [ok |-> TRUE, v |-> x.v]
              ELSE [ok |-> FALSE, v |-> 0]

\* int(x)
IntOf(x) == IF x.t \in {"num", "numstr"} THEN [ok |-> TRUE, v |-> x.v]
            ELSE [ok |-> FALSE, v |-> 0]

RECURSIVE WordCount(_, _)
\* len(text.split()): maximal runs of non-blank characters; inWord tells
\* whether the character before the rest s belonged to a word.
WordCount(s, inWord) ==
    IF s = <<>> THEN 0
    ELSE IF Head(s) = " " THEN WordCount(Tail(s), FALSE)
    ELSE (IF inWord THEN 0 ELSE 1) + WordCount(Tail(s), TRUE)

LabelGE(sentiment) == IF sentiment >= 60 THEN "high"
                      ELSE IF sentiment >= 40 THEN "medium"
                      ELSE "low"

Label(sentiment) == IF sentiment > 60 THEN "high"
                    ELSE IF sentiment >= 40 THEN "medium"
                    ELSE "low"

process_message(raw_message) ==
    IF raw_message.t # "obj" THEN NoneVal
    ELSE LET m == raw_message.message
             \* raw_message.get("message", "") or ""
             isText == m.t \in {"missing", "null", "str"} \/ (m.t = "num" /\ m.v = 0)
             text == IF m.t = "str" THEN m.s ELSE <<>>
             s == raw_message.sentiment
             sent == IF s.t = "missing" THEN [ok |-> TRUE, v |-> 0] ELSE FloatOf(s)
             l == raw_message.message_length
             mlen == IF l.t = "missing" THEN [ok |-> TRUE, v |-> Len(text)] ELSE IntOf(l)
         IN IF ~sent.ok \/ ~isText \/ ~mlen.ok THEN NoneVal
            ELSE [t |-> "rec",
                  message |-> text,
                  sentiment |-> sent.v,
                  sentiment_label |-> Label(sent.v),
                  message_length |-> mlen.v,
                  word_count |-> WordCount(text, FALSE)]

\* ------------------------------------------------------------------ state
VARIABLES pc, exit_code, exc, at, file, fileExists, dbExists, last_position,
          idx, telling, line, raw, processed, primary, insight, failed,
          cycle, sawAbsent, log, startLen

vars == <<pc, exit_code, exc, at, file, fileExists, dbExists, last_position,
          idx, telling, line, raw, processed, primary, insight, failed,
          cycle, sawAbsent, log, startLen>>

\* everything but the producer's file
consumerVars == <<pc, exit_code, exc, at, dbExists, last_position,
                  idx, telling, line, raw, processed, primary, insight, failed,
                  cycle, sawAbsent, log, startLen>>

NoLine == [src |-> 0, body |-> Blank, nl |-> TRUE]

\* Documents the producer writes in the main specification.
FileDocs == {Scalar,
             Obj(Str(<<"a">>), Missing, Missing),
             Obj(Str(<<"a">>), Str(<<"a">>), Missing),
             Obj(Str(<<"a">>), Num(60), Missing)}

FileBodies == {Blank, Bad} \cup {Json(d) : d \in FileDocs}

\* Documents given to process_message in the normalizer specification.
MsgVals == {Missing, Null, Num(1)} \cup {Str(s) : s \in Texts}
SentVals == {Missing, Null, Str(<<"a">>), NumStr(50)} \cup {Num(n) : n \in (0 - SentBelow)..MaxSent}
LenVals == {Missing, Null, Num(5), Str(<<"a">>)}
RawInputs == {Scalar} \cup {Obj(m, s, l) : m \in MsgVals, s \in SentVals, l \in LenVals}

LoopPcs == {"open", "next", "parse", "process", "insert_message",
            "insert_insight", "tell", "sleep"}
ConsumePcs == {"consume_init"} \cup LoopPcs

TypeOK ==
    /\ pc \in {"config", "reset", "main_init", "exited"} \cup ConsumePcs
    /\ exit_code \in {"none", "0", "1", "2", "3", "11"}
    /\ Len(file) <= MaxLines + 1
    /\ fileExists \in BOOLEAN /\ dbExists \in BOOLEAN
    /\ last_position \in Nat /\ idx \in 0..Len(file)
    /\ telling \in BOOLEAN
    /\ cycle \in 0..(MaxCycles + 1)

Init ==
    /\ pc = "config"
    /\ exit_code = "none"
    /\ exc = "none"
    /\ at = "none"
    /\ file = <<>>
    /\ fileExists \in BOOLEAN
    /\ dbExists \in BOOLEAN
    /\ last_position = 0
    /\ idx = 0
    /\ telling = TRUE
    /\ line = NoLine
    /\ raw = NoneVal
    /\ processed = NoneVal
    /\ primary = <<>>
    /\ insight = <<>>
    /\ failed = {}
    /\ cycle = 0
    /\ sawAbsent = FALSE
    /\ log = <<>>
    /\ startLen = 0

\* An entry of the history of what was done for which line of the file.
Event(ev, src, ok) == [ev |-> ev, src |-> src, ok |-> ok]

\* Number of newline-terminated lines of f.
CompleteCount(f) == Cardinality({i \in 1..Len(f) : f[i].nl})

\* The process ends with the given code; e names what ended it.
Exit(code, e) ==
    /\ pc' = "exited"
    /\ exit_code' = code
    /\ exc' = e
    /\ at' = pc

\* ------------------------------------------------------------------ main()
\* STEP 1: the configuration is read.
ReadConfig ==
    /\ UNCHANGED <<log, startLen>>
    /\ pc = "config"
    /\ pc' = "reset"
    /\ UNCHANGED <<exit_code, exc, at, file, fileExists, dbExists, last_position,
                   idx, telling, line, raw, processed, primary, insight, failed,
                   cycle, sawAbsent>>

\* STEP 1 fails: sys.exit(1).
ReadConfigFail ==
    /\ UNCHANGED <<log, startLen>>
    /\ pc = "config"
    /\ Exit("1", "ConfigError")
    /\ UNCHANGED <<file, fileExists, dbExists, last_position,
                   idx, telling, line, raw, processed, primary, insight, failed,
                   cycle, sawAbsent>>

\* STEP 2: a prior database file, if any, is deleted.
DeleteDb ==
    /\ UNCHANGED <<log, startLen>>
    /\ pc = "reset"
    /\ pc' = "main_init"
    /\ dbExists' = FALSE
    /\ UNCHANGED <<exit_code, exc, at, file, fileExists, last_position,
                   idx, telling, line, raw, processed, primary, insight, failed,
                   cycle, sawAbsent>>

\* STEP 2 fails: unlink() raises, sys.exit(2).
DeleteDbFail ==
    /\ UNCHANGED <<log, startLen>>
    /\ pc = "reset"
    /\ dbExists
    /\ Exit("2", "UnlinkError")
    /\ UNCHANGED <<file, fileExists, dbExists, last_position,
                   idx, telling, line, raw, processed, primary, insight, failed,
                   cycle, sawAbsent>>

\* STEP 3: init_db and init_insights_db create the two empty tables; STEP 4
\* calls consume_messages_from_file(..., 0).
MainInit ==
    /\ UNCHANGED <<log, startLen>>
    /\ pc = "main_init"
    /\ pc' = "consume_init"
    /\ dbExists' = TRUE
    /\ last_position' = 0
    /\ UNCHANGED <<exit_code, exc, at, file, fileExists,
                   idx, telling, line, raw, processed, primary, insight, failed,
                   cycle, sawAbsent>>

\* STEP 3 fails: init_db or init_insights_db raises, sys.exit(3).
MainInitFail ==
    /\ UNCHANGED <<log, startLen>>
    /\ pc = "main_init"
    /\ Exit("3", "InitError")
    /\ UNCHANGED <<file, fileExists, dbExists, last_position,
                   idx, telling, line, raw, processed, primary, insight, failed,
                   cycle, sawAbsent>>

\* ------------------------------------------------ consume_messages_from_file
\* "1. Initialize the database", "2. Set the last position to 0".
ConsumeInit ==
    /\ startLen' = CompleteCount(file)
    /\ UNCHANGED log
    /\ pc = "consume_init"
    /\ pc' = "open"
    /\ last_position' = 0
    /\ UNCHANGED <<exit_code, exc, at, file, fileExists, dbExists,
                   idx, telling, line, raw, processed, primary, insight, failed,
                   cycle, sawAbsent>>

\* init_db or init_insights_db raises inside consume_messages_from_file: the
\* exception reaches main's "except Exception", which logs it; main returns.
ConsumeInitFail ==
    /\ UNCHANGED <<log, startLen>>
    /\ pc = "consume_init"
    /\ Exit("0", "InitError")
    /\ UNCHANGED <<file, fileExists, dbExists, last_position,
                   idx, telling, line, raw, processed, primary, insight, failed,
                   cycle, sawAbsent>>

Bump(c) == IF c <= MaxCycles THEN c + 1 ELSE c

\* open() and seek(last_position) succeed.
OpenOk ==
    /\ UNCHANGED <<log, startLen>>
    /\ pc = "open"
    /\ fileExists
    /\ pc' = "next"
    /\ idx' = IndexAt(file, last_position)
    /\ telling' = TRUE
    /\ cycle' = Bump(cycle)
    /\ UNCHANGED <<exit_code, exc, at, file, fileExists, dbExists, last_position,
                   line, raw, processed, primary, insight, failed, sawAbsent>>

\* The handler of any other exception, taken for a missing file.
OpenAbsentFatal ==
    /\ UNCHANGED <<log, startLen>>
    /\ pc = "open"
    /\ ~fileExists
    /\ Exit("11", "FileNotFoundError")
    /\ cycle' = Bump(cycle)
    /\ sawAbsent' = TRUE
    /\ UNCHANGED <<file, fileExists, dbExists, last_position,
                   idx, telling, line, raw, processed, primary, insight, failed>>

\* open() raises FileNotFoundError: logged, then the interval sleep.
OpenAbsent ==
    /\ UNCHANGED <<log, startLen>>
    /\ pc = "open"
    /\ ~fileExists
    /\ pc' = "sleep"
    /\ exc' = "FileNotFoundError"
    /\ at' = pc
    /\ cycle' = Bump(cycle)
    /\ sawAbsent' = TRUE
    /\ UNCHANGED <<exit_code, file, fileExists, dbExists, last_position,
                   idx, telling, line, raw, processed, primary, insight, failed>>

\* The FileNotFoundError handler, taken for another failure of open().
OpenErrorRetry ==
    /\ UNCHANGED <<log, startLen>>
    /\ pc = "open"
    /\ fileExists
    /\ pc' = "sleep"
    /\ exc' = "OSError"
    /\ at' = pc
    /\ cycle' = Bump(cycle)
    /\ UNCHANGED <<exit_code, file, fileExists, dbExists, last_position,
                   idx, telling, line, raw, processed, primary, insight, failed,
                   sawAbsent>>

\* open() raises another exception (permission, disk): sys.exit(11).
OpenError ==
    /\ UNCHANGED <<log, startLen>>
    /\ pc = "open"
    /\ fileExists
    /\ Exit("11", "OSError")
    /\ cycle' = Bump(cycle)
    /\ UNCHANGED <<file, fileExists, dbExists, last_position,
                   idx, telling, line, raw, processed, primary, insight, failed,
                   sawAbsent>>

\* The blank line moves the offset: tell() taken before the continue.
NextBlankAdvance ==
    /\ UNCHANGED <<log, startLen>>
    /\ pc = "next"
    /\ idx < Len(file)
    /\ IsBlank(file[idx + 1].body)
    /\ idx' = idx + 1
    /\ telling' = FALSE
    /\ last_position' = Offset(file, idx + 1)
    /\ UNCHANGED <<pc, exit_code, exc, at, file, fileExists, dbExists,
                   line, raw, processed, primary, insight, failed, cycle, sawAbsent>>

\* The blank line is not skipped: it goes to json.loads like any other.
NextBlankParsed ==
    /\ UNCHANGED <<log, startLen>>
    /\ pc = "next"
    /\ idx < Len(file)
    /\ IsBlank(file[idx + 1].body)
    /\ idx' = idx + 1
    /\ telling' = FALSE
    /\ line' = [src |-> idx + 1, body |-> file[idx + 1].body, nl |-> file[idx + 1].nl]
    /\ pc' = "parse"
    /\ UNCHANGED <<exit_code, exc, at, file, fileExists, dbExists, last_position,
                   raw, processed, primary, insight, failed, cycle, sawAbsent>>

\* "for line in file" yields a line whose strip() is empty: continue.
NextBlank ==
    /\ UNCHANGED <<log, startLen>>
    /\ pc = "next"
    /\ idx < Len(file)
    /\ IsBlank(file[idx + 1].body)
    /\ idx' = idx + 1
    /\ telling' = FALSE
    /\ UNCHANGED <<pc, exit_code, exc, at, file, fileExists, dbExists, last_position,
                   line, raw, processed, primary, insight, failed, cycle, sawAbsent>>

\* "for line in file" yields a line with content, terminated or not.
NextLine ==
    /\ UNCHANGED <<log, startLen>>
    /\ pc = "next"
    /\ idx < Len(file)
    /\ ~IsBlank(file[idx + 1].body)
    /\ idx' = idx + 1
    /\ telling' = FALSE
    /\ line' = [src |-> idx + 1, body |-> file[idx + 1].body, nl |-> file[idx + 1].nl]
    /\ pc' = "parse"
    /\ UNCHANGED <<exit_code, exc, at, file, fileExists, dbExists, last_position,
                   raw, processed, primary, insight, failed, cycle, sawAbsent>>

\* The iteration ends: the file is closed, then the interval sleep.
NextEOF ==
    /\ UNCHANGED <<log, startLen>>
    /\ pc = "next"
    /\ idx = Len(file)
    /\ telling' = TRUE
    /\ pc' = "sleep"
    /\ UNCHANGED <<exit_code, exc, at, file, fileExists, dbExists, last_position,
                   idx, line, raw, processed, primary, insight, failed, cycle,
                   sawAbsent>>

\* Reading the file raises (disk, decoding): sys.exit(11).
ReadError ==
    /\ UNCHANGED <<log, startLen>>
    /\ pc = "next"
    /\ Exit("11", "OSError")
    /\ UNCHANGED <<file, fileExists, dbExists, last_position,
                   idx, telling, line, raw, processed, primary, insight, failed,
                   cycle, sawAbsent>>

\* raw = json.loads(line.strip()); a JSONDecodeError reaches the loop's
\* "except Exception": sys.exit(11).
Parse ==
    /\ UNCHANGED <<log, startLen>>
    /\ pc = "parse"
    /\ LET r == JsonLoads(line.body)
       IN IF r.ok
          THEN /\ raw' = r.doc
               /\ pc' = "process"
               /\ UNCHANGED <<exit_code, exc, at>>
          ELSE /\ Exit("11", "JSONDecodeError")
               /\ UNCHANGED raw
    /\ UNCHANGED <<file, fileExists, dbExists, last_position,
                   idx, telling, line, processed, primary, insight, failed,
                   cycle, sawAbsent>>

\* The record goes to insert_insight without the insert_message before it.
ProcessInsightFirst ==
    /\ pc = "process"
    /\ processed' = process_message(raw)
    /\ pc' = IF processed' # NoneVal THEN "insert_insight" ELSE "tell"
    /\ log' = IF processed' # NoneVal
              THEN Append(log, Event("normalized", line.src, TRUE))
              ELSE log
    /\ UNCHANGED startLen
    /\ UNCHANGED <<exit_code, exc, at, file, fileExists, dbExists, last_position,
                   idx, telling, line, raw, primary, insight, failed, cycle,
                   sawAbsent>>

\* processed = process_message(raw); "if processed:".
Process ==
    /\ pc = "process"
    /\ processed' = process_message(raw)
    /\ pc' = IF processed' # NoneVal THEN "insert_message" ELSE "tell"
    /\ log' = IF processed' # NoneVal
              THEN Append(log, Event("normalized", line.src, TRUE))
              ELSE log
    /\ UNCHANGED startLen
    /\ UNCHANGED <<exit_code, exc, at, file, fileExists, dbExists, last_position,
                   idx, telling, line, raw, primary, insight, failed, cycle,
                   sawAbsent>>

Row == [src |-> line.src, rec |-> processed]

\* insert_message(processed, sql_path): one row, or a logged failure.
InsertMessage ==
    /\ pc = "insert_message"
    /\ \E ok \in BOOLEAN :
         /\ IF ok THEN primary' = Append(primary, Row) /\ UNCHANGED failed
            ELSE failed' = failed \cup {<<line.src, "primary">>} /\ UNCHANGED primary
         /\ log' = Append(log, Event("primary", line.src, ok))
    /\ UNCHANGED startLen
    /\ pc' = "insert_insight"
    /\ UNCHANGED <<exit_code, exc, at, file, fileExists, dbExists, last_position,
                   idx, telling, line, raw, processed, insight, cycle, sawAbsent>>

\* insert_insight without its commit: no row, and no failure either.
InsertInsightNoCommit ==
    /\ pc = "insert_insight"
    /\ log' = Append(log, Event("insight", line.src, TRUE))
    /\ pc' = "tell"
    /\ UNCHANGED <<exit_code, exc, at, file, fileExists, dbExists, last_position,
                   idx, telling, line, raw, processed, primary, insight, failed,
                   cycle, sawAbsent, startLen>>

\* insert_insight(processed, sql_path): one row, or a logged failure.
InsertInsight ==
    /\ pc = "insert_insight"
    /\ \E ok \in BOOLEAN :
         /\ IF ok THEN insight' = Append(insight, Row) /\ UNCHANGED failed
            ELSE failed' = failed \cup {<<line.src, "insight">>} /\ UNCHANGED insight
         /\ log' = Append(log, Event("insight", line.src, ok))
    /\ UNCHANGED startLen
    /\ pc' = "tell"
    /\ UNCHANGED <<exit_code, exc, at, file, fileExists, dbExists, last_position,
                   idx, telling, line, raw, processed, primary, cycle, sawAbsent>>

\* last_position = file.tell(). The text file's tell() raises OSError
\* ("telling position disabled by next() call") while the file is being
\* iterated; the loop's "except Exception" turns it into sys.exit(11).
Tell ==
    /\ UNCHANGED <<log, startLen>>
    /\ pc = "tell"
    /\ IF telling
       THEN /\ last_position' = Offset(file, idx)
            /\ pc' = "next"
            /\ UNCHANGED <<exit_code, exc, at>>
       ELSE /\ Exit("11", "UnsupportedOperation")
            /\ UNCHANGED last_position
    /\ UNCHANGED <<file, fileExists, dbExists,
                   idx, telling, line, raw, processed, primary, insight, failed,
                   cycle, sawAbsent>>

\* time.sleep(interval_secs) returns; "while True" starts the next cycle.
Sleep ==
    /\ UNCHANGED <<log, startLen>>
    /\ pc = "sleep"
    /\ pc' = "open"
    /\ UNCHANGED <<exit_code, exc, at, file, fileExists, dbExists, last_position,
                   idx, telling, line, raw, processed, primary, insight, failed,
                   cycle, sawAbsent>>

\* KeyboardInterrupt is raised wherever the interpreter is inside
\* consume_messages_from_file; no handler there catches it, main logs
\* "Consumer interrupted by user." and returns.
Interrupt ==
    /\ UNCHANGED <<log, startLen>>
    /\ pc \in ConsumePcs
    /\ Exit("0", "KeyboardInterrupt")
    /\ UNCHANGED <<file, fileExists, dbExists, last_position,
                   idx, telling, line, raw, processed, primary, insight, failed,
                   cycle, sawAbsent>>

\* --------------------------------------------------------------- producer
\* The producer creates the live data file.
CreateFile ==
    /\ ~fileExists
    /\ fileExists' = TRUE
    /\ UNCHANGED <<file, consumerVars>>

LastPartial == Len(file) > 0 /\ ~file[Len(file)].nl

\* The producer appends one line, with or without its terminator yet.
AppendLine ==
    /\ fileExists
    /\ Len(file) < MaxLines
    /\ ~LastPartial
    /\ \E b \in FileBodies, n \in BOOLEAN :
         /\ (b.t = "blank" => n)
         /\ file' = Append(file, [body |-> b, nl |-> n])
    /\ UNCHANGED <<fileExists, consumerVars>>

\* The producer appends the rest of the last line and its terminator.
CompleteLine ==
    /\ fileExists
    /\ LastPartial
    /\ \E b \in FileBodies :
         /\ ByteLen(b) >= ByteLen(file[Len(file)].body)
         /\ file' = [file EXCEPT ![Len(file)] = [body |-> b, nl |-> TRUE]]
    /\ UNCHANGED <<fileExists, consumerVars>>

Producer == CreateFile \/ AppendLine \/ CompleteLine

Consumer ==
    \/ ReadConfig \/ ReadConfigFail \/ DeleteDb \/ DeleteDbFail
    \/ MainInit \/ MainInitFail \/ ConsumeInit \/ ConsumeInitFail
    \/ OpenOk \/ OpenAbsent \/ OpenError
    \/ NextBlank \/ NextLine \/ NextEOF \/ ReadError
    \/ Parse \/ Process \/ InsertMessage \/ InsertInsight \/ Tell
    \/ Sleep \/ Interrupt

Next == Producer \/ Consumer

Spec == Init /\ [][Next]_vars

\* ------------------------------------------- the normalizer on its own
InitNormalize ==
    /\ pc = "process"
    /\ exit_code = "none"
    /\ exc = "none"
    /\ at = "none"
    /\ file = <<>>
    /\ fileExists = TRUE
    /\ dbExists = TRUE
    /\ last_position = 0
    /\ idx = 0
    /\ telling = FALSE
    /\ line = NoLine
    /\ raw \in RawInputs
    /\ processed = NoneVal
    /\ primary = <<>>
    /\ insight = <<>>
    /\ failed = {}
    /\ cycle = 1
    /\ sawAbsent = FALSE
    /\ log = <<>>
    /\ startLen = 0

NextNormalize == Process

SpecNormalize == InitNormalize /\ [][NextNormalize]_vars

\* ------------------------------------------------------------- properties
InLine == pc \in {"parse", "process", "insert_message", "insert_insight", "tell"}

WriteFailedFor(i) == \E sink \in {"primary", "insight"} : <<i, sink>> \in failed

Srcs(rows) == {rows[i].src : i \in 1..Len(rows)}

\* Bytes of the newline-terminated lines of f.
CompleteBytes(f) == IF Len(f) > 0 /\ ~f[Len(f)].nl THEN Offset(f, Len(f) - 1)
                    ELSE Offset(f, Len(f))

\* C1: a line that fails JSON parsing is dropped and the loop continues: with
\* a complete malformed line at hand the process does not terminate (an
\* interrupt aside).
C1_MalformedLineDropped ==
    (pc = "exited" /\ line.src # 0 /\ line.nl /\ ~JsonLoads(line.body).ok)
        => exc = "KeyboardInterrupt"

\* C2: a trailing partial line (no terminating newline yet) is never handed
\* to the parser, the normalizer or the sinks.
C2_PartialLineNotProcessed == InLine => line.nl

\* C3: whenever a cycle ends without aborting, last_position equals the
\* total byte length, terminators included, of the complete lines of the
\* file.
C3_OffsetAtCycleEnd ==
    [][(pc = "next" /\ pc' = "sleep") => last_position' = CompleteBytes(file)]_vars

\* C4: a cycle that finds the source file absent writes no row, keeps the
\* offset, does not terminate and goes straight to the sleep; after the
\* sleep the next cycle starts at the unchanged offset.
C4_AbsentCycleRetries ==
    /\ [][(pc = "open" /\ ~fileExists /\ pc' # "open" /\ exc' # "KeyboardInterrupt")
            => /\ pc' = "sleep"
               /\ exit_code' = "none"
               /\ primary' = primary /\ insight' = insight
               /\ last_position' = last_position
               /\ line' = line /\ raw' = raw /\ processed' = processed]_vars
    /\ [][(pc = "sleep" /\ pc' # "sleep" /\ exc' # "KeyboardInterrupt")
            => pc' = "open" /\ last_position' = last_position]_vars

\* An absent cycle happened, the file appeared, and a line of it was consumed.
C4_Witness == sawAbsent /\ pc = "insert_insight" /\ Len(primary) = 1 /\ last_position = 0

\* C5: a failed insert for a record never escalates: once a write of the
\* line at hand has failed, the process does not exit (an interrupt aside).
C5_WriteFailureContained ==
    (pc = "exited" /\ line.src # 0 /\ WriteFailedFor(line.src))
        => exc = "KeyboardInterrupt"

\* C6: a failure of opening or reading the source file other than
\* file-not-found ends the process with exit code 11, and an ended process
\* reads no line, writes no row and starts no cycle.
C6_FatalReadAborts ==
    /\ [](exc = "OSError" => pc = "exited" /\ exit_code = "11")
    /\ [][pc = "exited" => UNCHANGED consumerVars]_vars

\* The open of a cycle failed with an error other than file-not-found.
C6_Witness == pc = "exited" /\ exc = "OSError" /\ exit_code = "11" /\ at = "open"

\* C7: a configuration failure ends the process with code 1, a failed
\* delete of the store file with code 2, any store initialization failure
\* with code 3.
C7_StartupExitCodes ==
    pc = "exited" =>
        /\ exc = "ConfigError" => exit_code = "1"
        /\ exc = "UnlinkError" => exit_code = "2"
        /\ exc = "InitError" => exit_code = "3"

\* C8: a sentiment that is missing or not coercible to a number does not
\* fail the normalization: the record has sentiment 0.0 and label low.
C8_SentimentDefault ==
    (/\ pc \in {"insert_message", "insert_insight", "tell"}
     /\ raw.t = "obj"
     /\ raw.sentiment.t \in {"missing", "null", "str"}
     /\ raw.message.t \in {"missing", "null", "str"}
     /\ raw.message_length.t \in {"missing", "num"})
        => /\ processed # NoneVal
           /\ processed.sentiment = 0
           /\ processed.sentiment_label = "low"

\* C9: the label of a normalized record is high when sentiment > 0.6, medium
\* when 0.4 <= sentiment <= 0.6, low when sentiment < 0.4.
C9_LabelBySentiment ==
    processed # NoneVal =>
        /\ processed.sentiment > 60 => processed.sentiment_label = "high"
        /\ (processed.sentiment >= 40 /\ processed.sentiment <= 60)
              => processed.sentiment_label = "medium"
        /\ processed.sentiment < 40 => processed.sentiment_label = "low"

\* A record normalized at the upper boundary 0.6.
C9_Witness ==
    /\ processed # NoneVal
    /\ processed.sentiment = 60
    /\ processed.sentiment_label = "medium"

\* C10: an interrupt alone never leaves a record in one sink and absent from
\* the other: it is not taken between the two inserts of a record.
C10_InterruptBetweenCycles ==
    (pc = "exited" /\ exc = "KeyboardInterrupt" /\ failed = {})
        => Srcs(primary) = Srcs(insight)

\* Lines for which process_message returned a record.
NormalizedSrcs == {log[k].src : k \in {n \in 1..Len(log) : log[n].ev = "normalized"}}

Attempts == {k \in 1..Len(log) : log[k].ev \in {"primary", "insight"}}

\* The loop stands between two records, or was ended there by sys.exit(11).
BetweenRecords ==
    \/ pc \in {"open", "next", "sleep", "tell"}
    \/ pc = "exited" /\ exit_code = "11"

\* The line of f at i is complete and process_message gives a record for it.
Normalizable(f, i) ==
    /\ f[i].nl
    /\ JsonLoads(f[i].body).ok
    /\ process_message(JsonLoads(f[i].body).doc) # NoneVal

\* Every line of the file is complete, valid JSON, and the line at hand, if
\* any, was read complete.
CleanFile ==
    /\ \A i \in 1..Len(file) : file[i].nl /\ JsonLoads(file[i].body).ok
    /\ line.nl

\* The loop is left by this step, and neither a failure of open or read nor
\* an interrupt is what ends it.
LoopEndsUnforced ==
    /\ pc \in LoopPcs
    /\ pc' = "exited"
    /\ exc' \notin {"OSError", "KeyboardInterrupt"}

\* C11: if no write has failed, then between records each table holds
\* exactly one row for every normalized line, no other row, and the two
\* tables hold the same records.
C11_OneRowPerRecord ==
    (failed = {} /\ BetweenRecords)
        => /\ Srcs(primary) = NormalizedSrcs
           /\ Len(primary) = Cardinality(NormalizedSrcs)
           /\ insight = primary

\* A line was normalized and written once to each table.
C11_Witness ==
    /\ failed = {} /\ BetweenRecords
    /\ Len(primary) = 1 /\ Len(insight) = 1
    /\ NormalizedSrcs = {primary[1].src}

\* C12: at most one insert is attempted per line and sink, and the offset
\* has advanced past every line whose writes were attempted once the loop
\* has left that line, whatever the outcome of the writes.
C12_AtMostOneAttempt ==
    /\ \A i, j \in Attempts :
         (log[i].ev = log[j].ev /\ log[i].src = log[j].src) => i = j
    /\ (~InLine /\ line.nl /\ exc # "KeyboardInterrupt")
         => \A k \in Attempts : last_position >= Offset(file, log[k].src)

\* C13: the loop has no terminal state other than the one entered by a
\* fatal read error (an interrupt aside): cycles with record-level parse or
\* write failures go on to the sleep and the next cycle.
C13_OnlyAbortedIsTerminal ==
    (pc = "exited" /\ at \in LoopPcs /\ line.nl)
        => exc \in {"OSError", "KeyboardInterrupt"}

\* C14: when process_message fails on a syntactically valid JSON line, no
\* row is written and the loop continues with the next line: the process
\* does not end on that line (an interrupt aside).
C14_FailureSkipsLine ==
    /\ (InLine /\ JsonLoads(line.body).ok /\ pc # "parse"
          /\ process_message(JsonLoads(line.body).doc) = NoneVal)
         => line.src \notin Srcs(primary) \cup Srcs(insight)
    /\ (pc = "exited" /\ line.src # 0 /\ line.nl /\ JsonLoads(line.body).ok
          /\ process_message(JsonLoads(line.body).doc) = NoneVal)
         => exc = "KeyboardInterrupt"

\* C15: there is no deduplication: when the file holds only complete valid
\* lines, starts with two identical ones that normalize, and no write fails, the loop does not end
\* before it has written two rows to each table.
C15_NoDeduplication ==
    [][(/\ LoopEndsUnforced
        /\ CleanFile
        /\ failed' = {}
        /\ Len(file) >= 2
        /\ file[1] = file[2]
        /\ Normalizable(file, 1))
          => Len(primary') = 2 /\ Len(insight') = 2]_vars

\* C16: no appended complete line that normalizes is skipped: with only
\* complete valid lines in the file, unless a write fails, a read fails
\* fatally or an interrupt arrives, the loop does not end while such a line
\* is missing from either table.
C16_EveryLineWritten ==
    [][(LoopEndsUnforced /\ CleanFile /\ failed' = {})
          => \A i \in 1..Len(file) :
               Normalizable(file, i)
                  => i \in Srcs(primary') /\ i \in Srcs(insight')]_vars

\* C17: the offset never decreases, never exceeds the length of the file,
\* and changes only at the tell() that follows a non-blank line; absent
\* cycles and cycles that read no new line leave it alone.
C17_OffsetMonotone ==
    /\ [](last_position <= Offset(file, Len(file)))
    /\ [][last_position' >= last_position]_vars
    /\ [][last_position' # last_position => pc = "tell"]_vars

\* After an absent cycle, a later cycle read only blank lines to the end of
\* the file and went to sleep with the offset where it was.
C17_Witness ==
    /\ sawAbsent /\ cycle >= 2 /\ pc = "sleep"
    /\ Len(file) >= 1 /\ idx = Len(file)
    /\ last_position = 0

\* C18: reading a blank line writes no row, ends nothing, and leaves the
\* offset where it was, and no line is normalized twice in a run.
C18_BlankLinesSkipped ==
    /\ [][(pc = "next" /\ idx < Len(file) /\ IsBlank(file[idx + 1].body)
             /\ idx' = idx + 1)
            => /\ pc' = "next"
               /\ exit_code' = "none"
               /\ primary' = primary /\ insight' = insight
               /\ last_position' = last_position
               /\ log' = log]_vars
    /\ [](\A i, j \in 1..Len(log) :
            (log[i].ev = "normalized" /\ log[j].ev = "normalized"
               /\ log[i].src = log[j].src) => i = j)

\* A blank line at the head of the file has been read again in a later cycle.
C18_Witness ==
    /\ cycle >= 2 /\ pc = "next" /\ idx >= 1
    /\ IsBlank(file[1].body)
    /\ last_position = 0

\* C19: the insight insert of a record directly follows the primary insert
\* of the same record, attempts and rows follow the order of the file, and
\* when no primary insert has failed the insight table never has more rows
\* than the primary table.
C19_PrimaryThenInsight ==
    /\ \A k \in 1..Len(log) :
         log[k].ev = "insight"
            => k > 1 /\ log[k - 1].ev = "primary" /\ log[k - 1].src = log[k].src
    /\ \A i, j \in 1..Len(log) : i < j => log[i].src <= log[j].src
    /\ \A i, j \in 1..Len(primary) : i < j => primary[i].src < primary[j].src
    /\ \A i, j \in 1..Len(insight) : i < j => insight[i].src < insight[j].src
    /\ (\A i \in 1..MaxLines + 1 : <<i, "primary">> \notin failed)
         => Len(insight) <= Len(primary)

\* Both inserts of a record were attempted and succeeded, in that order.
C19_Witness ==
    /\ Len(log) = 3
    /\ log[2] = Event("primary", line.src, TRUE)
    /\ log[3] = Event("insight", line.src, TRUE)
    /\ Len(primary) = 1 /\ Len(insight) = 1

\* C20: the tailing starts at offset 0 whatever the caller passed, and the
\* first cycle consumes every line that was in the file at startup: with
\* only complete valid lines in the file, the loop is not left in the first
\* cycle before the iteration has passed them.
C20_StartsAtZeroReadsAll ==
    /\ [][(pc = "consume_init" /\ pc' = "open") => last_position' = 0]_vars
    /\ [][(LoopEndsUnforced /\ CleanFile /\ cycle = 1) => idx' >= startLen]_vars

====
